---- MODULE Spec2Model ----
(***************************************************************************)
(* State-machine model of src/main.py: the SlimeWorld simulation (move,    *)
(* deposit, decay/diffuse, sense-and-turn) driven by Renderer.render_loop. *)
(*                                                                         *)
(* Number representation.  The program computes in floating point; the    *)
(* model computes in fixed point:                                          *)
(*   - angles are integers in units of 5 degrees (FullTurn units a turn); *)
(*   - sin/cos and positions are integers in units of 1/PosScale cell;    *)
(*   - field values are integers in units of 1/FieldScale colour level    *)
(*     (the float16 spacing of the binade [128,256));                      *)
(*   - kernel weights are integers in units of 1/KernelDen.                *)
(* The grid, the population, the number of ticks and the number of input  *)
(* events are bounded.                                                     *)
(***************************************************************************)
EXTENDS Integers, Sequences, FiniteSets, TLC

VARIABLES
    pc,                     \* position of __main__ / Renderer.render_loop
    trail_reduction_factor, \* SlimeWorld.trail_reduction_factor, in percent
    slime_color,            \* SlimeWorld.slime_color   [agent -> <<r,g,b>>]
    cells,                  \* SlimeWorld.cells         [<<x,y>> -> <<r,g,b>>]
    slime_pos,              \* SlimeWorld.slime_pos     [agent -> <<x,y>>]
    slime_angle,            \* SlimeWorld.slime_angle   [agent -> angle]
    sensors,                \* sense_and_turn's local `sensors` of the last call
    random_angle,           \* sense_and_turn's local `random_angle` of the last call
    queue,                  \* pygame's event queue
    waiting,                \* render_loop's local `waiting`
    running,                \* render_loop's local `running`
    array_buffer,           \* render_loop's local `array_buffer` (last frame)
    ticks,                  \* number of completed SlimeWorld.tick() calls
    frames,                 \* number of completed pg.display.update() calls
    events_left,            \* events the environment may still post
    random_state,           \* cp.random: the samples its generator yields in this run
    stop_tick,              \* history: value of ticks when running became False
    wait_stops              \* history: QUIT/ESCAPE events read by the waiting loop

vars == <<pc, trail_reduction_factor, slime_color, cells, slime_pos, slime_angle,
          sensors, random_angle, queue, waiting, running, array_buffer, ticks,
          frames, events_left, random_state, stop_tick, wait_stops>>

(***************************************************************************)
(* Bounds of the model                                                     *)
(***************************************************************************)
WIDTH == 4

HEIGHT == 4

num_slimes == 2

MaxTicks == 2

\* events the environment posts in a run that studies the simulation
InputEvents == 1

\* events the environment posts in a run that studies the render loop
MaxEvents == 3

(***************************************************************************)
(* Fixed-point units                                                       *)
(***************************************************************************)
FullTurn == 72

PosScale == 1000

FieldScale == 8

KernelDen == 256

Channels == 1..3

Agents == 1..num_slimes

Grid == (0..(WIDTH - 1)) \X (0..(HEIGHT - 1))

RoundDiv(a, b) == (2 * a + b) \div (2 * b)

Abs(v) == IF v < 0 THEN -v ELSE v

\* float -> int conversion of astype(int): truncation toward zero
Trunc(v, scale) == IF v >= 0 THEN v \div scale ELSE -((-v) \div scale)

\* sin of 0, 5, ..., 90 degrees, scaled by PosScale
SinTable ==
    <<0, 87, 174, 259, 342, 423, 500, 574, 643, 707,
      766, 819, 866, 906, 940, 966, 985, 996, 1000>>

Sin(a) ==
    LET r == a % FullTurn
        q == FullTurn \div 4
    IN  IF r <= q THEN SinTable[r + 1]
        ELSE IF r <= 2 * q THEN SinTable[2 * q - r + 1]
        ELSE IF r <= 3 * q THEN -SinTable[r - 2 * q + 1]
        ELSE -SinTable[4 * q - r + 1]

Cos(a) == Sin(a + FullTurn \div 4)

\* cp.arctan2(dx, dy): the angle in (-pi, pi] whose (sin, cos) is (dx, dy)
Arctan2(dx, dy) ==
    CHOOSE d \in (1 - FullTurn \div 2)..(FullTurn \div 2) :
        Sin(d) = dx /\ Cos(d) = dy

(***************************************************************************)
(* SlimeWorld class attributes                                             *)
(***************************************************************************)
sense_dist == 7

sense_angles == <<-6, 0, 6>>

turn_angle == 2

turn_angle_random == 2

\* gkern(): the five central weights of the normalised 21-tap profile
\* (0.0021, 0.1683, 0.6591, 0.1683, 0.0021; the other taps are below 1e-6)
trail_kernel_1d == <<1, 43, 168, 43, 1>>

Color(r, g, b) == <<r * FieldScale, g * FieldScale, b * FieldScale>>

ZeroCells == [p \in Grid |-> <<0, 0, 0>>]

\* "0) Single color"
SingleColor == [i \in Agents |-> Color(117, 255, 255)]

\* "4) 2 colors"
slime_colors == <<Color(0, 180, 255), Color(0, 255, 180)>>

TwoColors == [i \in Agents |-> slime_colors[((i - 1) % 2) + 1]]

\* "4) Random start in circle": samples of temp, and the circle's radius
InitTemps == {9, 45}

InitRadius == WIDTH \div 4

InitPos(temp) ==
    << (Sin(temp) * InitRadius) + (WIDTH * PosScale) \div 2,
       (Cos(temp) * InitRadius) + (HEIGHT * PosScale) \div 2 >>

\* samples of the initial cp.random.random() * 2 * pi
InitHeadings == {0, 45}

\* samples of cp.random.random() in sense_and_turn, in units of 1/RandomDen:
\* 0 and 1/2
RandomSamples == {0, 2}

RandomDen == 4

(***************************************************************************)
(* SlimeWorld.clip                                                         *)
(***************************************************************************)
\* a faulty variant of ClipAxis that forgets the upper bound (sensitivity of C2)
ClipLow(v, hi) == IF v < 0 THEN 0 ELSE v

ClipAxis(v, hi) == IF v < 0 THEN 0 ELSE IF v > hi THEN hi ELSE v

clip(pos) ==
    << ClipAxis(pos[1], (WIDTH - 1) * PosScale),
       ClipAxis(pos[2], (HEIGHT - 1) * PosScale) >>

IntPos(pos) == << Trunc(pos[1], PosScale), Trunc(pos[2], PosScale) >>

(***************************************************************************)
(* Initial state: the class bodies of SlimeWorld and Renderer              *)
(***************************************************************************)
\* the agents start at one sampled point of the circle, each with a sampled
\* heading
InitAgents ==
    /\ cells = ZeroCells
    /\ \E temp \in InitTemps : slime_pos = [i \in Agents |-> InitPos(temp)]
    /\ slime_angle \in [Agents -> InitHeadings]
    /\ sensors = [i \in Agents |-> <<0, 0, 0>>]
    /\ random_angle = [i \in Agents |-> 0]

\* the colour assignment of the program as written
InitWorld ==
    /\ slime_color = SingleColor
    /\ InitAgents

\* one of the initial worlds: every agent at temp = pi / 4 and with heading 0
InitOneWorld ==
    /\ InitWorld
    /\ \A i \in Agents : slime_pos[i] = InitPos(FullTurn \div 8) /\ slime_angle[i] = 0

InitLoop ==
    /\ pc = "start"
    /\ queue = <<>>
    /\ waiting = TRUE
    /\ running = TRUE
    /\ array_buffer = ZeroCells
    /\ ticks = 0
    /\ frames = 0
    /\ stop_tick = -1
    /\ wait_stops = 0

\* the program as written, every initial world, InputEvents input events
Init ==
    /\ trail_reduction_factor = 99
    /\ InitWorld
    /\ InitLoop
    /\ events_left = InputEvents
    /\ random_state = RandomSamples

\* the program with the colour assignment "4) 2 colors"
InitColors ==
    /\ trail_reduction_factor = 99
    /\ slime_color = TwoColors
    /\ InitAgents
    /\ InitLoop
    /\ events_left = InputEvents
    /\ random_state = RandomSamples

\* the program as written, one initial world, a generator that yields 1/2
\* every time, MaxEvents input events
InitRenderLoop ==
    /\ trail_reduction_factor = 99
    /\ InitOneWorld
    /\ InitLoop
    /\ events_left = MaxEvents
    /\ random_state = {RandomDen \div 2}

\* the decay factors a configuration may give: 0.99, and 0 and 1 outside (0,1)
ConfigReductionFactors == {0, 99, 100}

ValidConfig == trail_reduction_factor > 0 /\ trail_reduction_factor < 100

InitConfig ==
    /\ trail_reduction_factor \in ConfigReductionFactors
    /\ InitOneWorld
    /\ InitLoop
    /\ events_left = InputEvents
    /\ random_state = RandomSamples

worldVars == <<cells, slime_pos, slime_angle, sensors, random_angle>>

loopVars == <<queue, waiting, running, array_buffer, frames, events_left, stop_tick,
              wait_stops>>

(***************************************************************************)
(* SlimeWorld.tick: the order of the four sub-steps                        *)
(***************************************************************************)
\* a faulty variant of tick with deposit and diffusion swapped (sensitivity of C1)
tick_swapped == <<"move", "diffuse", "deposit", "sense">>

tick == <<"move", "deposit", "diffuse", "sense">>

\* where control goes when sub-step `step` returns
AfterStep(step) ==
    IF \E k \in 1..(Len(tick) - 1) : tick[k] = step
    THEN tick[(CHOOSE k \in 1..(Len(tick) - 1) : tick[k] = step) + 1]
    ELSE "export"

(***************************************************************************)
(* SlimeWorld.move_slimes                                                  *)
(***************************************************************************)
SlimeDir(angle) == << Sin(angle), Cos(angle) >>

Xoob(pos) == pos[1] < 0 \/ pos[1] > (WIDTH - 1) * PosScale

Yoob(pos) == pos[2] < 0 \/ pos[2] > (HEIGHT - 1) * PosScale

\* a faulty variant of Bounce that reverses the whole direction when either
\* axis is out of bounds (sensitivity of C5)
BounceBoth(dir, pos) ==
    IF Xoob(pos) \/ Yoob(pos) THEN << -dir[1], -dir[2] >> ELSE dir

\* "Bounce off walls": the direction after the per-axis sign flips
Bounce(dir, pos) ==
    << IF Xoob(pos) THEN -dir[1] ELSE dir[1],
       IF Yoob(pos) THEN -dir[2] ELSE dir[2] >>

MovedPos(i) ==
    << slime_pos[i][1] + SlimeDir(slime_angle[i])[1],
       slime_pos[i][2] + SlimeDir(slime_angle[i])[2] >>

move_slimes ==
    /\ pc = "move"
    /\ LET anyOob == \E i \in Agents : Xoob(MovedPos(i)) \/ Yoob(MovedPos(i))
       IN  IF anyOob
           THEN /\ slime_angle' =
                       [i \in Agents |->
                           LET d == Bounce(SlimeDir(slime_angle[i]), MovedPos(i))
                           IN  Arctan2(d[1], d[2])]
                /\ slime_pos' = [i \in Agents |-> clip(MovedPos(i))]
           ELSE /\ slime_angle' = slime_angle
                /\ slime_pos' = [i \in Agents |-> MovedPos(i)]
    /\ pc' = AfterStep("move")
    /\ UNCHANGED <<trail_reduction_factor, slime_color, random_state, cells, sensors,
                   random_angle, ticks, loopVars>>

(***************************************************************************)
(* SlimeWorld.leave_slime_trail                                            *)
(***************************************************************************)
Occupants(p) == {i \in Agents : IntPos(slime_pos[i]) = p}

\* the value an indexed assignment stores in a cell: the assigned value
Deposited(old, color) == color

\* cells[ix, iy] = slime_color is a scatter with one writer per agent and
\* channel; when several agents index one cell the stored value is
\* undefined in CuPy: each channel holds what one of the writers stored.
Writers ==
    {w \in [Agents -> Agents] :
        /\ \A i \in Agents : IntPos(slime_pos[w[i]]) = IntPos(slime_pos[i])
        /\ \A i, j \in Agents :
               IntPos(slime_pos[i]) = IntPos(slime_pos[j]) => w[i] = w[j]}

leave_slime_trail ==
    /\ pc = "deposit"
    /\ \E w \in [Channels -> Writers] :
           cells' =
               [p \in Grid |->
                   IF Occupants(p) = {}
                   THEN cells[p]
                   ELSE LET a == CHOOSE i \in Occupants(p) : TRUE
                        IN  [c \in Channels |->
                               Deposited(cells[p][c], slime_color[w[c][a]][c])]]
    /\ pc' = AfterStep("deposit")
    /\ UNCHANGED <<trail_reduction_factor, slime_color, random_state, slime_pos, slime_angle,
                   sensors, random_angle, ticks, loopVars>>

(***************************************************************************)
(* SlimeWorld.diffuse_slime_trail                                          *)
(***************************************************************************)
\* cp.multiply(cells, trail_reduction_factor, out=cells): one value
Decay(v) == RoundDiv(v * trail_reduction_factor, 100)

\* the boundary mode of convolve (its default, "reflect"): d c b a | a b c d
Reflect(k, n) == IF k < 0 THEN -k - 1 ELSE IF k >= n THEN 2 * n - 1 - k ELSE k

\* The value of a field expression, computed once: a function expression is
\* otherwise evaluated anew at each application. Evaluated(f) = f.
Evaluated(f) == CHOOSE g \in {f} : g = f

\* the taps of one kernel row, applied along the y axis
RowSum(f, x, y, c) ==
      trail_kernel_1d[1] * f[<<x, Reflect(y + 2, HEIGHT)>>][c]
    + trail_kernel_1d[2] * f[<<x, Reflect(y + 1, HEIGHT)>>][c]
    + trail_kernel_1d[3] * f[<<x, y>>][c]
    + trail_kernel_1d[4] * f[<<x, Reflect(y - 1, HEIGHT)>>][c]
    + trail_kernel_1d[5] * f[<<x, Reflect(y - 2, HEIGHT)>>][c]

\* the taps of one kernel column, applied along the x axis
ColumnSum(f, x, y, c) ==
      trail_kernel_1d[1] * f[<<Reflect(x + 2, WIDTH), y>>][c]
    + trail_kernel_1d[2] * f[<<Reflect(x + 1, WIDTH), y>>][c]
    + trail_kernel_1d[3] * f[<<x, y>>][c]
    + trail_kernel_1d[4] * f[<<Reflect(x - 1, WIDTH), y>>][c]
    + trail_kernel_1d[5] * f[<<Reflect(x - 2, WIDTH), y>>][c]

\* convolve(cells, trail_kernel, output=cells). The kernel has one tap along
\* the channel axis, so every channel is convolved on its own. The kernel is
\* the outer product of trail_kernel_1d with itself (np.outer in gkern), so
\* the sum over its 5 x 5 taps is the column sum of the row sums; the sums
\* are exact and the result is rounded once.
Convolve(f) ==
    LET rows == Evaluated([p \in Grid |-> [c \in Channels |-> RowSum(f, p[1], p[2], c)]])
    IN  [p \in Grid |->
            [c \in Channels |->
                RoundDiv(ColumnSum(rows, p[1], p[2], c), KernelDen * KernelDen)]]

diffuse_slime_trail ==
    /\ pc = "diffuse"
    /\ cells' = Convolve(Evaluated([p \in Grid |-> [c \in Channels |-> Decay(cells[p][c])]]))
    /\ pc' = AfterStep("diffuse")
    /\ UNCHANGED <<trail_reduction_factor, slime_color, random_state, slime_pos, slime_angle,
                   sensors, random_angle, ticks, loopVars>>

(***************************************************************************)
(* SlimeWorld.sense_at_angle and SlimeWorld.sense_and_turn                 *)
(***************************************************************************)
sense_at_angle(angle) ==
    [i \in Agents |->
        LET sense_angle == slime_angle[i] + angle
            sense_pos == clip(<< slime_pos[i][1] + Sin(sense_angle) * sense_dist,
                                 slime_pos[i][2] + Cos(sense_angle) * sense_dist >>)
            int_sense_pos == IntPos(sense_pos)
        IN  -( Abs(cells[int_sense_pos][1] - slime_color[i][1])
             + Abs(cells[int_sense_pos][2] - slime_color[i][2])
             + Abs(cells[int_sense_pos][3] - slime_color[i][3]) )]

\* a faulty variant of Argmax that returns the index of the last maximum
\* (sensitivity of C4)
ArgmaxLast(s) ==
    IF s[3] >= s[1] /\ s[3] >= s[2] THEN 2
    ELSE IF s[2] >= s[1] THEN 1
    ELSE 0

\* cp.argmax over the three rows: the index (0, 1, 2) of the first maximum
Argmax(s) ==
    IF s[1] >= s[2] /\ s[1] >= s[3] THEN 0
    ELSE IF s[2] >= s[3] THEN 1
    ELSE 2

\* the deterministic part of the heading update, by sensors_argmax
Turn(argmax) ==
    IF argmax = 1 THEN -turn_angle
    ELSE IF argmax = 2 THEN turn_angle
    ELSE 0

\* random * 2 * turn_angle_random - turn_angle_random
RandomAngle(r) == (r * 2 * turn_angle_random) \div RandomDen - turn_angle_random

sense_and_turn ==
    /\ pc = "sense"
    /\ sensors' = [i \in Agents |->
                      << sense_at_angle(sense_angles[1])[i],
                         sense_at_angle(sense_angles[2])[i],
                         sense_at_angle(sense_angles[3])[i] >>]
    /\ \E r \in [Agents -> random_state] :
           random_angle' = [i \in Agents |-> RandomAngle(r[i])]
    /\ slime_angle' = [i \in Agents |->
                          slime_angle[i] + Turn(Argmax(sensors'[i])) + random_angle'[i]]
    /\ ticks' = ticks + 1
    /\ pc' = AfterStep("sense")
    /\ UNCHANGED <<trail_reduction_factor, slime_color, random_state, cells,
                   slime_pos, loopVars>>

(***************************************************************************)
(* pygame events                                                           *)
(***************************************************************************)
\* KEYDOWN K_RETURN, QUIT, KEYDOWN K_ESCAPE, and any other event
Events == {"RETURN", "QUIT", "ESCAPE", "OTHER"}

HasReturn(events) == \E k \in 1..Len(events) : events[k] = "RETURN"

HasStop(events) == \E k \in 1..Len(events) : events[k] \in {"QUIT", "ESCAPE"}

StopCount(events) == Cardinality({k \in 1..Len(events) : events[k] \in {"QUIT", "ESCAPE"}})

\* the user or the window system posts an event
PostEvent ==
    /\ pc \notin {"start", "done"}
    /\ events_left > 0
    /\ \E e \in Events : queue' = Append(queue, e)
    /\ events_left' = events_left - 1
    /\ UNCHANGED <<pc, trail_reduction_factor, slime_color, random_state, worldVars, waiting,
                   running, array_buffer, ticks, frames, stop_tick, wait_stops>>

(***************************************************************************)
(* __main__                                                                *)
(***************************************************************************)
\* SlimeWorld.initialize() (pass), Renderer.initialize(), entry of render_loop
initialize ==
    /\ pc = "start"
    /\ pc' = "waiting"
    /\ waiting' = TRUE
    /\ UNCHANGED <<trail_reduction_factor, slime_color, random_state, worldVars, queue, running,
                   array_buffer, ticks, frames, events_left, stop_tick, wait_stops>>

(***************************************************************************)
(* Renderer.render_loop                                                    *)
(***************************************************************************)
\* `waiting` after one pass of the for loop over pg.event.get()
WaitingAfter(events) == ~HasReturn(events)

\* a faulty variant of RunningAtLoopStart that lets a stop request read by
\* the waiting loop carry over (sensitivity of C10)
RunningUnlessStop(events) == ~HasStop(events)

\* `running = True` at the head of the game loop
RunningAtLoopStart(events) == TRUE

\* one iteration of `while waiting`
wait_loop ==
    /\ pc = "waiting"
    /\ queue' = <<>>
    /\ waiting' = WaitingAfter(queue)
    /\ IF waiting'
       THEN pc' = "waiting" /\ running' = running
       ELSE pc' = "poll" /\ running' = RunningAtLoopStart(queue)
    /\ wait_stops' = wait_stops + StopCount(queue)
    /\ UNCHANGED <<trail_reduction_factor, slime_color, random_state, worldVars, array_buffer,
                   ticks, frames, events_left, stop_tick>>

\* `running` after one pass of the for loop over pg.event.get()
RunningAfter(events) == IF HasStop(events) THEN FALSE ELSE running

\* a faulty variant of AfterPoll that leaves the loop as soon as the stop
\* flag is set (sensitivity of C7)
AfterPollStop(r) == IF r THEN tick[1] ELSE "done"

\* the statement after the event loop: SlimeWorld.tick(), whatever `running` is
AfterPoll(r) == tick[1]

\* head of one iteration of `while running`: clock.tick(60) and the event loop
poll_events ==
    /\ pc = "poll"
    /\ ticks < MaxTicks
    /\ queue' = <<>>
    /\ running' = RunningAfter(queue)
    /\ stop_tick' = IF running /\ ~running' THEN ticks ELSE stop_tick
    /\ pc' = AfterPoll(running')
    /\ UNCHANGED <<trail_reduction_factor, slime_color, random_state, worldVars, waiting,
                   array_buffer, ticks, frames, events_left, wait_stops>>

\* a faulty variant of Uint8: a cast to a signed 8-bit integer (sensitivity
\* of C9)
Int8(v, mode) ==
    LET t == Trunc(v, FieldScale)
    IN  IF t >= -128 /\ t <= 127 THEN t
        ELSE IF mode = "wrap" THEN ((t + 128) % 256) - 128
        ELSE IF t < 0 THEN -128 ELSE 127

\* astype(np.uint8) of one value: truncation; a value outside [0, 256) is
\* out of the target's range and the result depends on the build: it wraps
\* modulo 256 or it saturates
CastModes == {"wrap", "saturate"}

Uint8(v, mode) ==
    LET t == Trunc(v, FieldScale)
    IN  IF t >= 0 /\ t <= 255 THEN t
        ELSE IF mode = "wrap" THEN t % 256
        ELSE IF t < 0 THEN 0 ELSE 255

\* the rest of the iteration: export, blit, display update, and the test of
\* the while condition (pg.quit() when it fails)
render_frame ==
    /\ pc = "export"
    /\ array_buffer' \in
           {[p \in Grid |-> [c \in Channels |-> Uint8(cells[p][c], mode)]] :
               mode \in CastModes}
    /\ frames' = frames + 1
    /\ pc' = IF running THEN "poll" ELSE "done"
    /\ UNCHANGED <<trail_reduction_factor, slime_color, random_state, worldVars, queue, waiting,
                   running, ticks, events_left, stop_tick, wait_stops>>

Next ==
    \/ initialize
    \/ PostEvent
    \/ wait_loop
    \/ poll_events
    \/ move_slimes
    \/ leave_slime_trail
    \/ diffuse_slime_trail
    \/ sense_and_turn
    \/ render_frame

Spec == Init /\ [][Next]_vars

SpecRenderLoop == InitRenderLoop /\ [][Next]_vars

SpecConfig == InitConfig /\ [][Next]_vars

SpecColors == InitColors /\ [][Next]_vars

(***************************************************************************)
(* Properties                                                              *)
(***************************************************************************)
TickSteps == {"move", "deposit", "diffuse", "sense"}

InBounds(pos) ==
    /\ 0 <= pos[1] /\ pos[1] <= (WIDTH - 1) * PosScale
    /\ 0 <= pos[2] /\ pos[2] <= (HEIGHT - 1) * PosScale

\* the sensing scores of agent i in the current state, left / straight / right
Scores(i) ==
    << sense_at_angle(sense_angles[1])[i],
       sense_at_angle(sense_angles[2])[i],
       sense_at_angle(sense_angles[3])[i] >>

\* C1: every tick runs move_slimes, leave_slime_trail, diffuse_slime_trail,
\* sense_and_turn once each, in this order: a tick starts with the move; the
\* deposit follows the move and writes only at the cells of the positions the
\* move produced; decay/diffusion follows the deposit; sense_and_turn follows
\* it, scores the field it left, and completes the tick; and nothing changes
\* positions, headings or field between sense_and_turn and the next move.
C1_TickOrder ==
    [][ /\ (pc' = "move" /\ pc # "move" => pc = "poll")
        /\ (pc = "move" /\ pc' # pc =>
               pc' = "deposit" /\ cells' = cells /\ ticks' = ticks)
        /\ (pc = "deposit" /\ pc' # pc =>
               /\ pc' = "diffuse"
               /\ slime_pos' = slime_pos /\ slime_angle' = slime_angle
               /\ ticks' = ticks
               /\ \A p \in Grid :
                      (\A i \in Agents : IntPos(slime_pos[i]) # p) => cells'[p] = cells[p])
        /\ (pc = "diffuse" /\ pc' # pc =>
               /\ pc' = "sense"
               /\ slime_pos' = slime_pos /\ slime_angle' = slime_angle
               /\ ticks' = ticks)
        /\ (pc = "sense" /\ pc' # pc =>
               /\ pc' = "export"
               /\ cells' = cells /\ slime_pos' = slime_pos
               /\ ticks' = ticks + 1
               /\ \A i \in Agents : sensors'[i] = Scores(i))
        /\ (pc \notin TickSteps =>
               /\ cells' = cells /\ slime_pos' = slime_pos
               /\ slime_angle' = slime_angle /\ ticks' = ticks)
      ]_vars

\* a second tick's deposit is about to run, after the second move
C1_Witness == pc = "deposit" /\ ticks = 1

\* C2: every agent's position lies in [0, WIDTH-1] x [0, HEIGHT-1] in every
\* state, so after every move_slimes and at the end of every tick, and its
\* integer truncation is a cell of the grid.
C2_BoundaryContainment ==
    \A i \in Agents : InBounds(slime_pos[i]) /\ IntPos(slime_pos[i]) \in Grid

\* a move has just clipped one agent to the far edge of an axis and another
\* agent to the near edge of an axis
C2_Witness ==
    /\ pc = "deposit"
    /\ \E i \in Agents :
           slime_pos[i][1] = (WIDTH - 1) * PosScale \/ slime_pos[i][2] = (HEIGHT - 1) * PosScale
    /\ \E i \in Agents : slime_pos[i][1] = 0 \/ slime_pos[i][2] = 0

\* C3: the turn rule as claimed. When the left sample (first direction)
\* scores strictly highest the heading decreases by turn_angle, when the right
\* sample (third direction) scores strictly highest it increases by
\* turn_angle, when the straight sample (second direction) scores strictly
\* highest there is no deterministic change; the jitter is added in all cases.
C3_TurnRule ==
    [][ pc = "sense" /\ pc' # pc =>
          \A i \in Agents :
              LET s == Scores(i)
              IN  /\ (s[1] > s[2] /\ s[1] > s[3] =>
                         slime_angle'[i] = slime_angle[i] - turn_angle + random_angle'[i])
                  /\ (s[3] > s[1] /\ s[3] > s[2] =>
                         slime_angle'[i] = slime_angle[i] + turn_angle + random_angle'[i])
                  /\ (s[2] > s[1] /\ s[2] > s[3] =>
                         slime_angle'[i] = slime_angle[i] + random_angle'[i])
      ]_vars

\* C4: an agent whose three sensing scores are equal has its heading changed
\* by the jitter term alone, which lies in [-turn_angle_random,
\* turn_angle_random]; with a jitter of 0 the heading is unchanged.
C4_TieBreak ==
    [][ pc = "sense" /\ pc' # pc =>
          \A i \in Agents :
              LET s == Scores(i)
              IN  s[1] = s[2] /\ s[2] = s[3] =>
                      /\ slime_angle'[i] = slime_angle[i] + random_angle'[i]
                      /\ random_angle'[i] >= -turn_angle_random
                      /\ random_angle'[i] <= turn_angle_random
                      /\ (random_angle'[i] = 0 => slime_angle'[i] = slime_angle[i])
      ]_vars

\* sense_and_turn has just run on an agent whose three scores were equal,
\* with the field no longer empty
C4_Witness ==
    /\ pc = "export"
    /\ \E i \in Agents :
           /\ sensors[i][1] = sensors[i][2] /\ sensors[i][2] = sensors[i][3]
           /\ sensors[i][1] # -(slime_color[i][1] + slime_color[i][2] + slime_color[i][3])

\* C5: move_slimes bounces per axis. With (dx, dy) the movement direction
\* and (x, y) the position after the unit step, the new heading points along
\* (dx or -dx, dy or -dy), where the x component is negated exactly when x is
\* outside [0, WIDTH-1] and the y component exactly when y is outside
\* [0, HEIGHT-1]; the new position is (x, y) with each coordinate clamped to
\* its range.
C5_BouncePerAxis ==
    [][ pc = "move" /\ pc' # pc =>
          \A i \in Agents :
              LET dx == Sin(slime_angle[i])
                  dy == Cos(slime_angle[i])
                  x == slime_pos[i][1] + dx
                  y == slime_pos[i][2] + dy
                  xout == x < 0 \/ x > (WIDTH - 1) * PosScale
                  yout == y < 0 \/ y > (HEIGHT - 1) * PosScale
              IN  /\ Sin(slime_angle'[i]) = (IF xout THEN -dx ELSE dx)
                  /\ Cos(slime_angle'[i]) = (IF yout THEN -dy ELSE dy)
                  /\ slime_pos'[i][1] =
                         (IF x < 0 THEN 0
                          ELSE IF xout THEN (WIDTH - 1) * PosScale ELSE x)
                  /\ slime_pos'[i][2] =
                         (IF y < 0 THEN 0
                          ELSE IF yout THEN (HEIGHT - 1) * PosScale ELSE y)
      ]_vars

\* a move has just bounced an agent off the far x wall only: it sits on that
\* wall, strictly inside on y, heading away from the wall and not along it
C5_Witness ==
    /\ pc = "deposit"
    /\ \E i \in Agents :
           /\ slime_pos[i][1] = (WIDTH - 1) * PosScale
           /\ slime_pos[i][2] > 0 /\ slime_pos[i][2] < (HEIGHT - 1) * PosScale
           /\ Sin(slime_angle[i]) < 0 /\ Cos(slime_angle[i]) # 0

\* C6: a configuration with a decay factor outside (0,1) never gets past
\* initialize: no tick sub-step and no frame runs on it.
C6_FailFast ==
    ~ValidConfig => pc \notin (TickSteps \cup {"poll", "export"}) /\ ticks = 0

\* C7: a stop request is examined only at tick boundaries. Inside a tick
\* control goes from each sub-step to the next whatever the event queue and
\* the stop flag hold, and the flag does not change; the loop ends only from
\* the end of an iteration, with every started tick and its frame completed;
\* and an iteration starts only from the waiting loop or from the end of the
\* previous iteration.
C7_StopAtTickBoundary ==
    [][ /\ (pc \in TickSteps => running' = running)
        /\ (pc = "move" => pc' \in {"move", "deposit"})
        /\ (pc = "deposit" => pc' \in {"deposit", "diffuse"})
        /\ (pc = "diffuse" => pc' \in {"diffuse", "sense"})
        /\ (pc = "sense" => pc' \in {"sense", "export"})
        /\ (pc' = "done" /\ pc # "done" =>
               pc = "export" /\ ~running /\ frames' = ticks)
        /\ (pc' = "poll" /\ pc # "poll" =>
               pc \in {"waiting", "export"} /\ frames' = ticks)
      ]_vars

\* a stop request is in the queue, unexamined, while a tick is under way
C7_Witness == pc = "diffuse" /\ HasStop(queue) /\ running

C9_ExportClamps ==
    frames > 0 /\ pc \in {"poll", "done"} =>
        \A p \in Grid : \A c \in Channels :
            LET t == Trunc(cells[p][c], FieldScale)
            IN  array_buffer[p][c] = (IF t < 0 THEN 0 ELSE IF t > 255 THEN 255 ELSE t)

\* a frame has been exported from a field that holds a fractional value
\* above half of the range
C9_Witness ==
    /\ frames > 0 /\ pc = "poll"
    /\ \E p \in Grid : \E c \in Channels :
           cells[p][c] > 128 * FieldScale /\ cells[p][c] % FieldScale # 0

\* C10: the waiting phase. The waiting loop leaves only on a batch holding a
\* Return key-down, runs no tick, and leaves the stop flag unset whatever it
\* reads; the flag is set only by the game loop's own event loop, on a QUIT
\* or Escape; and the loop is left exactly one tick and one frame after that.
C10_WaitingPhase ==
    [][ /\ (pc = "waiting" =>
               /\ running' /\ ticks' = 0 /\ frames' = 0
               /\ (pc' # "waiting" => HasReturn(queue) /\ pc' = "poll")
               /\ (~HasReturn(queue) => pc' = "waiting"))
        /\ (running /\ ~running' => pc = "poll" /\ HasStop(queue))
        /\ (pc = "poll" /\ pc' # pc /\ HasStop(queue) => ~running')
        /\ (pc' = "done" =>
               ~running' /\ ticks' = stop_tick' + 1 /\ frames' = stop_tick' + 1)
      ]_vars

\* the waiting loop read and dropped a QUIT or Escape, and the game loop has
\* since ended on a later one
C10_Witness == pc = "done" /\ wait_stops > 0 /\ stop_tick >= 0

====
